---- MODULE Spec2Model ----
(***************************************************************************)
(* Model of the notes application's state engine: the note store of the    *)
(* useNotes hook (collection, selection, query, derived views), the        *)
(* sanitising loader that produces its initial collection, and the id      *)
(* generator; the debounced save, the routes, RouteSync, which keeps the   *)
(* Route and the Selection together, the NoteEditor and the Sidebar's      *)
(* keyboard.  Strings are sequences of one-character strings; the empty    *)
(* JavaScript string is << >>.  A nullable id is Null (<< >>) or           *)
(* Some(id) (<< id >>), so that null differs from the empty string.        *)
(***************************************************************************)
EXTENDS Integers, Sequences, FiniteSets, TLC

VARIABLES
    notes,            \* useNotes: notes
    selectedNoteId,   \* useNotes: selectedNoteId
    query,            \* useNotes: query
    now,              \* the reading of Date.now()
    lastOp,           \* the last store operation called, with its arguments and result
    localStorage,     \* the value stored under "notes.v1"
    timers,           \* the pending timeouts, each with the notes its callback closes over
    debouncedTimerRef, \* useNotes: debouncedTimerRef.current
    mounted,          \* the component that owns the hook is mounted
    saveLog,          \* the calls of saveNotes since the collection last changed
    fragment,         \* the fragment of window.location
    historyLen,       \* the number of entries of window.history
    hashchange,       \* the hashchange events queued for the window's listeners
    syncState,        \* RouteSync: Uninitialized or Synced(id-or-null)
    seenNotes,        \* RouteSync: the collection as Reconcile last saw it
    editor            \* NoteEditor: title, content, noteId and the pending timeout

storeVars == <<notes, selectedNoteId, query, now, lastOp>>

persistVars == <<localStorage, timers, debouncedTimerRef, mounted, saveLog>>

routeVars == <<fragment, historyLen, hashchange>>

viewVars == <<syncState, seenNotes, editor>>

vars == <<notes, selectedNoteId, query, now, lastOp, localStorage, timers, debouncedTimerRef,
          mounted, saveLog, fragment, historyLen, hashchange, syncState, seenNotes, editor>>

----------------------------------------------------------------------------
(* Bounds of the model *)

\* Longest collection addNote is called on.
MaxNotes == 2

\* Last reading of the clock.
MaxTime == 2

\* The calls of saveNotes counted between two changes of the collection.
MaxSaves == 2

\* The entries of window.history that are counted.
MaxHistory == 3

\* The hashchange events that are queued at a time.
MaxPending == 2

----------------------------------------------------------------------------
(* Values *)

Null == << >>

Some(id) == << id >>

\* JavaScript truthiness of a string: the empty string is falsy.
Truthy(s) == Len(s) > 0

Untitled == <<"U", "n", "t", "i", "t", "l", "e", "d">>

Digits36 ==
    <<"0", "1", "2", "3", "4", "5", "6", "7", "8", "9", "a", "b", "c", "d", "e", "f", "g", "h",
      "i", "j", "k", "l", "m", "n", "o", "p", "q", "r", "s", "t", "u", "v", "w", "x", "y", "z">>

RECURSIVE toString36(_)
\* Number.prototype.toString(36) of a natural number.
toString36(n) ==
    IF n < 36 THEN <<Digits36[n + 1]>>
    ELSE toString36(n \div 36) \o <<Digits36[(n % 36) + 1]>>

RECURSIVE toString10(_)
\* String(n) of a natural number.
toString10(n) ==
    IF n < 10 THEN <<Digits36[n + 1]>>
    ELSE toString10(n \div 10) \o <<Digits36[(n % 10) + 1]>>

\* Math.random().toString(36).slice(2, 8): up to six base-36 digits.  One
\* suffix is enough for two calls to draw the same one; ids that differ come
\* from calls at different clock readings.
RandomSuffixes == {<<"k">>}

\* generateId(prefix = "note") at clock reading ts with random suffix rnd.
generateId(ts, rnd) == <<"n", "o", "t", "e">> \o <<"_">> \o toString36(ts) \o <<"_">> \o rnd

----------------------------------------------------------------------------
(* The stored value and loadNotes *)

\* A JSON field value as far as loadNotes tells them apart.
Str(s) == [t |-> "string", s |-> s, n |-> 0]
Num(n) == [t |-> "number", s |-> << >>, n |-> n]
Undef == [t |-> "undefined", s |-> << >>, n |-> 0]

\* The JSON value null.
JsonNull == [t |-> "null", s |-> << >>, n |-> 0]

\* The number Infinity, which JSON.parse makes of a numeral such as 1e999.
Infinity == 1000000

\* An element of the stored array: null, or an object with the four fields.
NullItem == [falsy |-> TRUE, id |-> Undef, title |-> Undef, content |-> Undef, updatedAt |-> Undef]
Item(id, title, content, updatedAt) ==
    [falsy |-> FALSE, id |-> id, title |-> title, content |-> content, updatedAt |-> updatedAt]

ItemA(t) == Item(Str(<<"a">>), Str(<<"H", "i">>), Str(<< >>), Num(t))
ItemB == Item(Str(<<"b">>), Str(<< >>), Str(<<"x">>), Num(1))

\* The arrays found under "notes.v1": records saved earlier, records saved by
\* a clock that ran ahead, records with fields missing or of the wrong type,
\* records that share an id, an id of the generator's form.
StoredArrays ==
    { <<NullItem, ItemA(0)>>,
      <<ItemA(MaxTime + 2), ItemB>>,
      <<Item(Undef, Num(7), Undef, Undef), Item(Num(0), Undef, Str(<<"x">>), Str(<<"1">>))>>,
      <<ItemA(0), ItemA(1)>>,
      <<Item(Num(12), Str(<<"H", "i">>), Num(3), Num(1)),
        Item(Str(generateId(1, <<"k">>)), Str(<< >>), Str(<< >>), Num(1))>> }

\* getItem gives null, or the text of an array.
StoredValues ==
    { [kind |-> "missing", items |-> << >>] }
    \cup { [kind |-> "array", items |-> a] : a \in StoredArrays }

\* What else is found under "notes.v1": a record whose numeral is too large
\* for a finite number, a record with null or ill-typed fields after a null,
\* the same record twice.
StorageArrays ==
    { <<ItemA(1), ItemB>>,
      <<Item(Str(<<"a">>), Str(<<"H", "i">>), Str(<< >>), Num(Infinity)), ItemB>>,
      <<NullItem, Item(Undef, Num(7), JsonNull, Str(<<"1">>))>>,
      <<ItemB, ItemB>> }

\* getItem gives null; the text is no JSON; the JSON is no array; an array.
StorageValues ==
    { [kind |-> "missing", items |-> << >>],
      [kind |-> "unparseable", items |-> << >>],
      [kind |-> "object", items |-> << >>],
      [kind |-> "array", items |-> << >>] }
    \cup { [kind |-> "array", items |-> a] : a \in StorageArrays }

RECURSIVE filterBoolean(_)
\* Array.prototype.filter(Boolean) on the stored items.
filterBoolean(s) ==
    IF s = << >> THEN << >>
    ELSE IF s[1].falsy THEN filterBoolean(Tail(s))
    ELSE <<s[1]>> \o filterBoolean(Tail(s))

\* loadNotes as it would be handing the stored fields on as they are.
sanitizeLoose(n, t) ==
    [id |-> n.id, title |-> n.title, content |-> n.content, updatedAt |-> n.updatedAt]

\* The record loadNotes makes of one stored item at clock reading t, each
\* field with its type.
sanitizeTyped(n, t) ==
    [ id |-> IF n.id.t = "string" THEN n.id
             ELSE IF n.id.t = "number" /\ n.id.n # 0 THEN Str(toString10(n.id.n))
             ELSE Str(<< >>),
      title |-> IF n.title.t = "string" THEN n.title ELSE Str(<< >>),
      content |-> IF n.content.t = "string" THEN n.content ELSE Str(<< >>),
      updatedAt |-> IF n.updatedAt.t = "number" THEN n.updatedAt ELSE Num(t) ]

\* The record loadNotes makes of one stored item at clock reading t.
sanitize(n, t) ==
    [ id |-> IF n.id.t = "string" THEN n.id.s
             ELSE IF n.id.t = "number" /\ n.id.n # 0 THEN toString10(n.id.n)
             ELSE << >>,
      title |-> IF n.title.t = "string" THEN n.title.s ELSE << >>,
      content |-> IF n.content.t = "string" THEN n.content.s ELSE << >>,
      updatedAt |-> IF n.updatedAt.t = "number" THEN n.updatedAt.n ELSE t ]

loadNotes(raw, t) ==
    IF raw.kind # "array" THEN << >>
    ELSE LET kept == filterBoolean(raw.items)
         IN [i \in 1..Len(kept) |-> sanitize(kept[i], t)]

\* The records of loadNotes with the type of each field.
loadTyped(raw, t) ==
    IF raw.kind # "array" THEN << >>
    ELSE LET kept == filterBoolean(raw.items)
         IN [i \in 1..Len(kept) |-> sanitizeTyped(kept[i], t)]

\* A try block as it would be without its catch: what is thrown inside
\* leaves the function.
uncaught(thrown) == thrown

\* try { ... } catch { console.warn(...) }: nothing thrown inside leaves the
\* function.
caught(thrown) == FALSE

\* loadNotes throws inside its try block when JSON.parse rejects the text.
loadRaised(raw) == caught(raw.kind = "unparseable")

----------------------------------------------------------------------------
(* saveNotes *)

\* JSON.stringify of a number as it would be writing null for every number.
jsonNumberNull(n) == JsonNull

\* JSON.stringify of a number: a numeral, or null for a number that is not finite.
jsonNumber(n) == IF n # Infinity THEN Num(n) ELSE JsonNull

\* saveNotes: the document JSON.stringify(toStore) denotes.
stringify(ns) ==
    [ kind |-> "array",
      items |-> [i \in 1..Len(ns) |->
                    Item(Str(ns[i].id), Str(ns[i].title), Str(ns[i].content),
                         jsonNumber(ns[i].updatedAt))] ]

\* localStorage.setItem: the value stored, unless the call throws (quota).
setItem(stored, doc, ok) == IF ok THEN doc ELSE stored

----------------------------------------------------------------------------
(* The debounce timer of useNotes *)

\* clearTimeout as it would be clearing nothing.
clearNothing(ts, ref) == ts

\* if (debouncedTimerRef.current) clearTimeout(debouncedTimerRef.current).
clearTimeout(ts, ref) == IF ref = Null THEN ts ELSE ts \ {ref[1]}

\* The effect's cleanup as it would be leaving the timer pending.
cleanupNot(ts, ref) == ts

\* The effect's cleanup.
cleanup(ts, ref) == clearTimeout(ts, ref)

\* setTimeout as it would be arming nothing.
setTimeoutNot(ts, ns) == ts

\* setTimeout(() => saveNotes(notes), 300): one more pending timeout.
setTimeout(ts, ns) == ts \cup {ns}

\* The effect on a change of notes: the cleanup of the run before, then the
\* body.
rearm(ts, ref, ns) == setTimeout(clearTimeout(cleanup(ts, ref), ref), ns)

\* A timeout as it would be firing again and again.
firedStays(ts, snap) == ts

\* A timeout fires once.
fired(ts, snap) == ts \ {snap}

NoSave == [count |-> 0, arg |-> Null, ok |-> FALSE, raised |-> FALSE]

----------------------------------------------------------------------------
(* Derived views of useNotes *)

NoteIds(ns) == { ns[i].id : i \in 1..Len(ns) }

\* The test as it would be holding of every id.
HasIdAny(ns, id) == TRUE

\* Some note of ns has the id.
HasId(ns, id) == \E i \in 1..Len(ns) : ns[i].id = id

\* Array.prototype.find: the first note with the id.
FindIndex(ns, id) == CHOOSE i \in 1..Len(ns) : ns[i].id = id /\ \A j \in 1..(i - 1) : ns[j].id # id

\* selectedNote as it would be with a fallback to the first note:
\* notes.find(...) || notes[0] || null.
selectedNoteOfFirst(ns, sel) ==
    IF sel = Null \/ ~Truthy(sel[1]) THEN Null
    ELSE IF HasId(ns, sel[1]) THEN Some(ns[FindIndex(ns, sel[1])])
    ELSE IF Len(ns) > 0 THEN Some(ns[1])
    ELSE Null

\* selectedNote: Null, or Some(note).
selectedNoteOf(ns, sel) ==
    IF sel = Null \/ ~Truthy(sel[1]) THEN Null
    ELSE IF HasId(ns, sel[1]) THEN Some(ns[FindIndex(ns, sel[1])])
    ELSE Null

selectedNote == selectedNoteOf(notes, selectedNoteId)

\* The initial selection: (notes[0] && notes[0].id) || null.
initialSelection(ns) ==
    IF Len(ns) > 0 /\ Truthy(ns[1].id) THEN Some(ns[1].id) ELSE Null

Uppers ==
    <<"A", "B", "C", "D", "E", "F", "G", "H", "I", "J", "K", "L", "M",
      "N", "O", "P", "Q", "R", "S", "T", "U", "V", "W", "X", "Y", "Z">>

\* The lower-case form of one character.
lowerChar(c) ==
    IF \E i \in 1..26 : Uppers[i] = c
    THEN Digits36[10 + (CHOOSE i \in 1..26 : Uppers[i] = c)]
    ELSE c

\* String.prototype.toLowerCase.
toLowerCase(s) == [i \in 1..Len(s) |-> lowerChar(s[i])]

\* The white space String.prototype.trim removes, as far as it is typed here.
WhiteSpace == {" ", "\t"}

RECURSIVE trimStart(_)
trimStart(s) ==
    IF s # << >> /\ s[1] \in WhiteSpace THEN trimStart(Tail(s)) ELSE s

RECURSIVE trimEnd(_)
trimEnd(s) ==
    IF s # << >> /\ s[Len(s)] \in WhiteSpace THEN trimEnd(SubSeq(s, 1, Len(s) - 1)) ELSE s

\* String.prototype.trim.
trim(s) == trimEnd(trimStart(s))

\* String.prototype.includes: q occurs in s.
includes(s, q) ==
    \E i \in 0..(Len(s) - Len(q)) : SubSeq(s, i + 1, i + Len(q)) = q

\* The filter's test of one note against the normalised query q.
matches(n, q) == includes(toLowerCase(n.title), q) \/ includes(toLowerCase(n.content), q)

\* filteredNotes as it would be comparing the text in its own case.
filteredNotesCase(ns, qry) ==
    LET q == trim(toLowerCase(qry))
    IN IF ~Truthy(q) THEN ns
       ELSE SelectSeq(ns, LAMBDA n : includes(n.title, q) \/ includes(n.content, q))

\* filteredNotes: q = (query || "").toLowerCase().trim(); all the notes when
\* q is empty, else the notes whose title or content holds q.
filteredNotesOf(ns, qry) ==
    LET q == trim(toLowerCase(qry))
    IN IF ~Truthy(q) THEN ns
       ELSE SelectSeq(ns, LAMBDA n : matches(n, q))

filteredNotes == filteredNotesOf(notes, query)

----------------------------------------------------------------------------
(* routes.js *)

\* An unpaired surrogate code unit (such as \uD800), written as one character.
LoneSurrogate == "D800"

\* The characters encodeURIComponent escapes, as far as they are typed here,
\* with the two hexadecimal digits of each.
Escapes ==
    { [c |-> "/", hex |-> <<"2", "F">>],
      [c |-> " ", hex |-> <<"2", "0">>],
      [c |-> "%", hex |-> <<"2", "5">>],
      [c |-> "#", hex |-> <<"2", "3">>] }

\* The escape of a character, in upper-case hexadecimal digits.
escapeOf(c) == <<"%">> \o (CHOOSE e \in Escapes : e.c = c).hex

\* What is thrown by a conversion: no result.
Thrown == [ok |-> FALSE, s |-> << >>]

RECURSIVE encodeURIComponent(_)
\* encodeURIComponent: letters, digits and marks stay, the other characters
\* become escapes, an unpaired surrogate makes it throw URIError.
encodeURIComponent(s) ==
    IF s = << >> THEN [ok |-> TRUE, s |-> << >>]
    ELSE IF s[1] = LoneSurrogate THEN Thrown
    ELSE LET rest == encodeURIComponent(Tail(s))
             head == IF \E e \in Escapes : e.c = s[1] THEN escapeOf(s[1]) ELSE <<s[1]>>
         IN IF rest.ok THEN [ok |-> TRUE, s |-> head \o rest.s] ELSE Thrown

\* The escapes decodeURIComponent reads: the digits in either case.
isEscape(pair) == \E e \in Escapes : e.hex = [i \in 1..2 |-> IF pair[i] = "f" THEN "F" ELSE pair[i]]

unescapeOf(pair) ==
    (CHOOSE e \in Escapes : e.hex = [i \in 1..2 |-> IF pair[i] = "f" THEN "F" ELSE pair[i]]).c

RECURSIVE decodeURIComponent(_)
\* decodeURIComponent: each escape becomes its character; a % that starts no
\* escape of a character makes it throw URIError.
decodeURIComponent(s) ==
    IF s = << >> THEN [ok |-> TRUE, s |-> << >>]
    ELSE IF s[1] = "%"
    THEN IF Len(s) >= 3 /\ isEscape(SubSeq(s, 2, 3))
         THEN LET rest == decodeURIComponent(SubSeq(s, 4, Len(s)))
              IN IF rest.ok THEN [ok |-> TRUE, s |-> <<unescapeOf(SubSeq(s, 2, 3))>> \o rest.s]
                 ELSE Thrown
         ELSE Thrown
    ELSE LET rest == decodeURIComponent(Tail(s))
         IN IF rest.ok THEN [ok |-> TRUE, s |-> <<s[1]>> \o rest.s] ELSE Thrown

RECURSIVE split(_, _)
\* String.prototype.split on a one-character separator.
split(s, sep) ==
    IF \A i \in 1..Len(s) : s[i] # sep THEN <<s>>
    ELSE LET i == CHOOSE k \in 1..Len(s) : s[k] = sep /\ \A j \in 1..(k - 1) : s[j] # sep
         IN <<SubSeq(s, 1, i - 1)>> \o split(SubSeq(s, i + 1, Len(s)), sep)

NotePrefix == <<"#", "/", "n", "o", "t", "e", "/">>

\* window.location.hash: "" when the URL has no fragment or an empty one,
\* else "#" and the fragment.
locationHashOf(f) == IF f = Null \/ f[1] = << >> THEN << >> ELSE <<"#">> \o f[1]

\* parseHash as it would be taking the second part undecoded.
routeIdRaw(part) == [ok |-> TRUE, s |-> part]

\* parseHash: decodeURIComponent(parts[1] || "").
routeId(part) == decodeURIComponent(part)

\* parseHash on the text h of window.location.hash: Null, or Some(id) of the
\* route {name: "note", params: {id}}.  What decodeURIComponent throws is
\* caught and gives null.
parseHash(h) ==
    LET raw == trim(h)
    IN IF ~Truthy(raw) \/ raw = <<"#">> \/ raw = <<"#", "/">> THEN Null
       ELSE LET hash == IF raw[1] = "#" THEN Tail(raw) ELSE raw
                parts == SelectSeq(split(hash, "/"), Truthy)
            IN IF Len(parts) = 2 /\ parts[1] = <<"n", "o", "t", "e">>
               THEN LET id == routeId(parts[2])
                    IN IF id.ok /\ Truthy(id.s) THEN Some(id.s) ELSE Null
               ELSE Null

\* parseHash throws inside its try block when decodeURIComponent does.
parseRaised(h) ==
    LET raw == trim(h)
        hash == IF Truthy(raw) /\ raw[1] = "#" THEN Tail(raw) ELSE raw
        parts == SelectSeq(split(hash, "/"), Truthy)
    IN caught(Len(parts) = 2 /\ parts[1] = <<"n", "o", "t", "e">> /\ ~routeId(parts[2]).ok)

\* getNoteIdFromHash on the text h: the id of the note route, or null.
getNoteIdFromHashOf(h) == parseHash(h)

locationHash == locationHashOf(fragment)

getNoteIdFromHash == getNoteIdFromHashOf(locationHash)

\* The hash setter as it would be adding no entry.
pushedNot(n) == n

\* One more entry of window.history.
pushed(n) == IF n < MaxHistory THEN n + 1 ELSE n

\* The ids handed to setNoteHash: plain, of the generator's form, with
\* characters that are escaped, with an unpaired surrogate, empty.
RouteIds ==
    { <<"a">>, generateId(1, <<"k">>), <<"a", "/", "b">>, <<" ">>, <<"%">>, <<"#", "a">>,
      <<LoneSurrogate>>, <<"a", LoneSurrogate>>, << >> }

\* The fragments a user navigates to: none, empty, "/", the note route, the
\* route without its leading slash, with doubled slashes, with a trailing
\* slash, with another prefix, with more or fewer parts, with escapes, with
\* a % that starts no escape.
Fragments ==
    { Null,
      Some(<< >>),
      Some(<<"/">>),
      Some(<<"/", "n", "o", "t", "e", "/", "a">>),
      Some(<<"n", "o", "t", "e", "/", "a">>),
      Some(<<"/", "/", "n", "o", "t", "e", "/", "/", "a">>),
      Some(<<"/", "n", "o", "t", "e", "/", "a", "/">>),
      Some(<<"/", "n", "o", "t", "e", "s", "/", "a">>),
      Some(<<"/", "x", "/", "n", "o", "t", "e", "/", "a">>),
      Some(<<"/", "n", "o", "t", "e", "/", "a", "/", "b">>),
      Some(<<"/", "n", "o", "t", "e", "/">>),
      Some(<<"/", "n", "o", "t", "e">>),
      Some(<<"/", "n", "o", "t", "e", "/", "%", "2", "f">>),
      Some(<<"/", "n", "o", "t", "e", "/", "a", "%", "2", "0", "b">>),
      Some(<<"/", "n", "o", "t", "e", "/", "%">>),
      Some(<<"/", "n", "o", "t", "e", "/", "%", "z", "z">>),
      Some(<<"/", "n", "o", "t", "e", "/", "a", "%", "2">>) }

----------------------------------------------------------------------------
(* Operations *)

\* patch: {title?, content?}.  A field that is not provided carries << >>.
Patch(ht, t, hc, c) == [hasTitle |-> ht, title |-> t, hasContent |-> hc, content |-> c]

\* The patches a caller passes.
Patches ==
    { Patch(TRUE, <<"H", "i">>, FALSE, << >>),
      Patch(FALSE, << >>, TRUE, << >>) }

\* Ids a caller passes besides those of the collection.
ArgIds == {<<"a">>}

IdArgs == NoteIds(notes) \cup ArgIds

Queries == {<< >>, <<"h">>}

\* The queries typed into the search box: empty, blank, in either case, with
\* white space before or after the word, a word no note holds.
FilterQueries ==
    { << >>, <<" ">>, <<"h">>, <<"H", "I">>, <<" ", "h">>, <<"h", "i", " ">>, <<"\t", " ">>,
      <<"a", " ", "h">>, <<"z">> }

\* The texts typed into the notes the filter reads.
FilterPatches ==
    { Patch(TRUE, <<"a", " ", "H">>, FALSE, << >>),
      Patch(FALSE, << >>, TRUE, <<"H", "I">>),
      Patch(TRUE, << >>, TRUE, <<" ">>) }

\* addNote as it would be creating a note with an empty title.
newNoteBlank(id, t) == [id |-> id, title |-> << >>, content |-> << >>, updatedAt |-> t]

\* addNote: the new note.
newNote(id, t) == [id |-> id, title |-> Untitled, content |-> << >>, updatedAt |-> t]

\* addNote as it would be appending: [...prev, newNote].
append(n, prev) == prev \o <<n>>

\* addNote: setNotes((prev) => [newNote, ...prev]).
prepend(n, prev) == <<n>> \o prev

\* updateNote: {...n, ...patch, updatedAt: Date.now()}.
updated(n, patch, t) ==
    [ id |-> n.id,
      title |-> IF patch.hasTitle THEN patch.title ELSE n.title,
      content |-> IF patch.hasContent THEN patch.content ELSE n.content,
      updatedAt |-> t ]

\* updateNote as it would be refreshing updatedAt outside the id test.
mapUpdateAll(prev, id, patch, t) ==
    [i \in 1..Len(prev) |->
        IF prev[i].id # id THEN [prev[i] EXCEPT !.updatedAt = t] ELSE updated(prev[i], patch, t)]

\* updateNote: prev.map(...).
mapUpdate(prev, id, patch, t) ==
    [i \in 1..Len(prev) |-> IF prev[i].id # id THEN prev[i] ELSE updated(prev[i], patch, t)]

RECURSIVE filterOut(_, _)
\* deleteNote: prev.filter((n) => n.id !== id).
filterOut(prev, id) ==
    IF prev = << >> THEN << >>
    ELSE IF prev[1].id # id THEN <<prev[1]>> \o filterOut(Tail(prev), id)
    ELSE filterOut(Tail(prev), id)

\* deleteNote as it would be clearing the selection on every delete.
deselectAlways(curr, id) == Null

\* deleteNote: setSelectedNoteId((curr) => (curr === id ? null : curr)).
deselect(curr, id) == IF curr = Some(id) THEN Null ELSE curr

\* selectNote as it would be validating the id against the collection.
selectedIfPresent(curr, id) == IF HasId(notes, id) THEN Some(id) ELSE curr

\* selectNote as it would be ignoring its argument.
selectedKeep(curr, id) == curr

\* selectNote: setSelectedNoteId(id).
selected(curr, id) == Some(id)

\* The record of a call: whether the id was in the collection, whether it was
\* the selection, what the call returned and whether it threw (no statement
\* of the five operations can throw).
Called(op, hit, wasSelected, ret) ==
    [op |-> op, hit |-> hit, wasSelected |-> wasSelected, ret |-> ret, threw |-> FALSE]

NoOp == [op |-> "init", hit |-> FALSE, wasSelected |-> FALSE, ret |-> Null, threw |-> FALSE]

\* The first render of useNotes and its effect: the state initialisers, the
\* timer armed for the loaded notes.
\* RouteSync before its Startup.
Uninitialized == [synced |-> FALSE, id |-> Null]

\* RouteSync after its Startup, with the Selection it last wrote or read.
Synced(sel) == [synced |-> TRUE, id |-> sel]

\* NoteEditor is not rendered.
Unrendered == [title |-> << >>, content |-> << >>, noteId |-> Null, timer |-> Null]

\* Neither RouteSync nor NoteEditor is at work.
NoView ==
    /\ syncState = Uninitialized
    /\ seenNotes = << >>
    /\ editor = Unrendered

Mount ==
    /\ notes = loadNotes(localStorage, now)
    /\ selectedNoteId = initialSelection(notes)
    /\ query = << >>
    /\ timers = setTimeout({}, notes)
    /\ debouncedTimerRef = Some(notes)
    /\ mounted = TRUE
    /\ saveLog = NoSave

\* The effect keyed on notes, run after a call of setNotes.
Effect ==
    /\ timers' = rearm(timers, debouncedTimerRef, notes')
    /\ debouncedTimerRef' = Some(notes')
    /\ saveLog' = NoSave
    /\ UNCHANGED <<localStorage, mounted>>

Init ==
    /\ now = 1
    /\ localStorage \in StoredValues
    /\ Mount
    /\ lastOp = NoOp
    /\ fragment = Null
    /\ historyLen = 1
    /\ hashchange = 0
    /\ NoView

\* The clock advances between two events.
Tick ==
    /\ now < MaxTime
    /\ now' = now + 1
    /\ UNCHANGED <<notes, selectedNoteId, query, lastOp>>
    /\ UNCHANGED <<persistVars, routeVars, viewVars>>

\* addNote(): Date.now() is read for updatedAt, then again by generateId, d later.
addNote(d, rnd) ==
    /\ mounted
    /\ Len(notes) < MaxNotes
    /\ now + d <= MaxTime
    /\ LET n == newNote(generateId(now + d, rnd), now)
       IN /\ notes' = prepend(n, notes)
          /\ selectedNoteId' = Some(n.id)
          /\ lastOp' = Called("add", FALSE, FALSE, Some(n.id))
    /\ now' = now + d
    /\ Effect
    /\ UNCHANGED <<query, routeVars>>

\* addNote() with nothing else rendered.
AddNote(d, rnd) == addNote(d, rnd) /\ UNCHANGED viewVars

\* updateNote(id, patch).
updateNote(id, patch) ==
    /\ mounted
    /\ notes' = mapUpdate(notes, id, patch, now)
    /\ lastOp' = Called("update", HasId(notes, id), FALSE, Null)
    /\ Effect
    /\ UNCHANGED <<selectedNoteId, query, now, routeVars>>

\* updateNote(id, patch) with nothing else rendered.
UpdateNote(id, patch) == updateNote(id, patch) /\ UNCHANGED viewVars

\* deleteNote(id).
deleteNote(id) ==
    /\ mounted
    /\ notes' = filterOut(notes, id)
    /\ selectedNoteId' = deselect(selectedNoteId, id)
    /\ lastOp' = Called("delete", HasId(notes, id), selectedNoteId = Some(id), Null)
    /\ Effect
    /\ UNCHANGED <<query, now, routeVars>>

\* deleteNote(id) with nothing else rendered.
DeleteNote(id) == deleteNote(id) /\ UNCHANGED viewVars

\* selectNote(id).
selectNote(id) ==
    /\ mounted
    /\ selectedNoteId' = selected(selectedNoteId, id)
    /\ lastOp' = Called("select", HasId(notes, id), FALSE, Null)
    /\ UNCHANGED <<notes, query, now, persistVars, routeVars>>

\* selectNote(id) with nothing else rendered.
SelectNote(id) == selectNote(id) /\ UNCHANGED viewVars

\* setQuery(q).
SetQuery(q) ==
    /\ mounted
    /\ query' = q
    /\ lastOp' = Called("setQuery", FALSE, FALSE, Null)
    /\ UNCHANGED <<notes, selectedNoteId, now, persistVars, routeVars, viewVars>>

\* The timeout armed with the notes snap fires: saveNotes(snap), where
\* setItem succeeds (ok) or throws.
TimerFire(snap, ok) ==
    /\ snap \in timers
    /\ timers' = fired(timers, snap)
    /\ localStorage' = setItem(localStorage, stringify(snap), ok)
    /\ saveLog' = [ count |-> IF saveLog.count < MaxSaves THEN saveLog.count + 1 ELSE MaxSaves,
                    arg |-> Some(snap),
                    ok |-> ok,
                    raised |-> caught(~ok) ]
    /\ UNCHANGED <<storeVars, debouncedTimerRef, mounted, routeVars, viewVars>>

\* The component unmounts: the effect's cleanup runs.
Unmount ==
    /\ mounted
    /\ mounted' = FALSE
    /\ timers' = cleanup(timers, debouncedTimerRef)
    /\ UNCHANGED <<storeVars, localStorage, debouncedTimerRef, saveLog, routeVars, viewVars>>

Next ==
    \/ Tick
    \/ \E d \in 0..1, rnd \in RandomSuffixes : AddNote(d, rnd)
    \/ \E id \in IdArgs, patch \in Patches : UpdateNote(id, patch)
    \/ \E id \in IdArgs : DeleteNote(id)
    \/ \E id \in IdArgs : SelectNote(id)
    \/ \E q \in Queries : SetQuery(q)

Spec == Init /\ [][Next]_vars

\* The search box and the editor at work on the loaded collection.
NextFilter ==
    \/ \E q \in FilterQueries : SetQuery(q)
    \/ \E id \in NoteIds(notes), patch \in FilterPatches : UpdateNote(id, patch)

SpecFilter == Init /\ [][NextFilter]_vars

\* A pending timeout fires.
Fire == \E snap \in timers, ok \in BOOLEAN : TimerFire(snap, ok)

\* The collection changes, the timer fires, the component unmounts.
NextPersist ==
    \/ \E rnd \in RandomSuffixes : AddNote(0, rnd)
    \/ \E id \in NoteIds(notes), patch \in Patches : UpdateNote(id, patch)
    \/ \E id \in NoteIds(notes) : DeleteNote(id)
    \/ Fire
    \/ Unmount

\* One more hashchange event for the listeners.
queued(n) == IF n < MaxPending THEN n + 1 ELSE n

\* setNoteHash as it would be writing nothing.
setNoteHashNot(id, replace) == UNCHANGED routeVars

\* setNoteHash as it would be writing with the hash setter whatever replace is.
setNoteHashPush(id, replace) ==
    LET safe == encodeURIComponent(id)
        nextHash == NotePrefix \o safe.s
    IN IF ~Truthy(id) \/ ~safe.ok \/ locationHash = nextHash
       THEN UNCHANGED routeVars
       ELSE /\ fragment' = Some(Tail(nextHash))
            /\ historyLen' = pushed(historyLen)
            /\ hashchange' = queued(hashchange)

\* setNoteHash(id, replace) on the window: history.replaceState, or the hash
\* setter, which navigates and fires hashchange.
setNoteHash(id, replace) ==
    LET safe == encodeURIComponent(id)
        nextHash == NotePrefix \o safe.s
    IN IF ~Truthy(id) \/ ~safe.ok \/ locationHash = nextHash
       THEN UNCHANGED routeVars
       ELSE /\ fragment' = Some(Tail(nextHash))
            /\ historyLen' = IF replace THEN historyLen ELSE pushed(historyLen)
            /\ hashchange' = IF replace THEN hashchange ELSE queued(hashchange)

\* setNoteHash(id, replace).  The record of the call keeps replace as hit.
SetNoteHash(id, replace) ==
    /\ setNoteHash(id, replace)
    /\ lastOp' = [Called("setNoteHash", replace, FALSE, Some(id))
                    EXCEPT !.threw = caught(Truthy(id) /\ ~encodeURIComponent(id).ok)]
    /\ UNCHANGED <<notes, selectedNoteId, query, now, persistVars, viewVars>>

\* clearHash(replace).  window.location.hash never reads "#", so the write
\* is always made: replaceState with the URL ending in "#", or the hash
\* setter, which navigates unless the fragment is the empty one already.
clearHash(replace) ==
    /\ fragment' = Some(<< >>)
    /\ historyLen' = IF replace \/ fragment = Some(<< >>) THEN historyLen ELSE pushed(historyLen)
    /\ hashchange' = IF replace \/ fragment = Some(<< >>) THEN hashchange ELSE queued(hashchange)

\* clearHash(replace).  The record of the call keeps replace as hit.
ClearHash(replace) ==
    /\ clearHash(replace)
    /\ lastOp' = Called("clearHash", replace, FALSE, Null)
    /\ UNCHANGED <<notes, selectedNoteId, query, now, persistVars, viewVars>>

\* The user follows a link to a fragment or types one.
Navigate(f) ==
    /\ f # fragment
    /\ fragment' = f
    /\ historyLen' = pushed(historyLen)
    /\ hashchange' = queued(hashchange)
    /\ lastOp' = Called("navigate", FALSE, FALSE, Null)
    /\ UNCHANGED <<notes, selectedNoteId, query, now, persistVars, viewVars>>

InitRoute ==
    /\ now = 1
    /\ localStorage = [kind |-> "missing", items |-> << >>]
    /\ Mount
    /\ lastOp = NoOp
    /\ fragment \in Fragments
    /\ historyLen = 1
    /\ hashchange = 0
    /\ NoView

NextRoute ==
    \/ \E id \in RouteIds, replace \in BOOLEAN : SetNoteHash(id, replace)
    \/ \E replace \in BOOLEAN : ClearHash(replace)
    \/ \E f \in Fragments : Navigate(f)

SpecRoute == InitRoute /\ [][NextRoute]_vars

\* The page is loaded again: a new first render from what is stored.  The
\* record of the call tells whether the stored value is what saveNotes last
\* wrote from the notes as they are.
Reload ==
    /\ notes' = loadNotes(localStorage, now)
    /\ selectedNoteId' = initialSelection(notes')
    /\ query' = << >>
    /\ timers' = setTimeout({}, notes')
    /\ debouncedTimerRef' = Some(notes')
    /\ mounted' = TRUE
    /\ saveLog' = NoSave
    /\ lastOp' = [Called("load", saveLog.count > 0 /\ saveLog.ok /\ saveLog.arg = Some(notes),
                         FALSE, Null)
                    EXCEPT !.threw = loadRaised(localStorage)]
    /\ UNCHANGED <<localStorage, now, routeVars, viewVars>>

InitStorage ==
    /\ now = 1
    /\ localStorage \in StorageValues
    /\ Mount
    /\ lastOp = NoOp
    /\ fragment = Null
    /\ historyLen = 1
    /\ hashchange = 0
    /\ NoView

\* Sessions that edit, save and load again.
NextStorage ==
    \/ Tick
    \/ \E id \in NoteIds(notes), patch \in Patches : UpdateNote(id, patch)
    \/ Fire
    \/ Reload

SpecStorage == InitStorage /\ [][NextStorage]_vars

\* The event loop runs the callback of a pending timeout in the end.
SpecPersist == Init /\ [][NextPersist]_vars /\ WF_vars(Fire)

----------------------------------------------------------------------------
(* RouteSync: the state machine that keeps Route and Selection together.   *)
(* Its transitions write the Route with setNoteHash and clearHash, read it *)
(* with getNoteIdFromHash, and select with selectNote.                     *)

\* The id the Route encodes, when the collection holds it.
routeNote(ns, h) ==
    LET id == getNoteIdFromHashOf(h)
    IN IF id # Null /\ HasId(ns, id[1]) THEN id ELSE Null

\* Writing Selection sel to the Route: the note route, or the cleared one.
writeRoute(sel, replace) ==
    IF sel # Null THEN setNoteHash(sel[1], replace) ELSE clearHash(replace)

\* Startup, once: the Route's note is selected and written back; else the
\* Selection is written; else the Route is cleared.  All with replace.
Startup ==
    /\ mounted
    /\ syncState = Uninitialized
    /\ LET id == routeNote(notes, locationHash)
           sel == IF id # Null THEN selected(selectedNoteId, id[1]) ELSE selectedNoteId
       IN /\ selectedNoteId' = sel
          /\ writeRoute(sel, TRUE)
          /\ syncState' = Synced(sel)
          /\ lastOp' = Called("startup", id # Null, selectedNoteId # Null, getNoteIdFromHash)
    /\ seenNotes' = notes
    /\ UNCHANGED <<notes, query, now, persistVars, editor>>

\* The trigger of Push as it would be without the guard on Startup.
PushUnguarded == syncState.id # selectedNoteId

\* The Selection is not the one RouteSync last wrote or read.
PushPending == syncState.synced /\ syncState.id # selectedNoteId

\* Push, after Startup, on a change of Selection: the Route is written with
\* push.
Push ==
    /\ PushPending
    /\ writeRoute(selectedNoteId, FALSE)
    /\ syncState' = Synced(selectedNoteId)
    /\ lastOp' = Called("push", FALSE, syncState.id # Null, selectedNoteId)
    /\ UNCHANGED <<notes, selectedNoteId, query, now, persistVars, seenNotes, editor>>

\* Pull, on a hashchange event: the Route's note is selected when the
\* collection holds it, else nothing is selected.
Pull ==
    /\ mounted
    /\ syncState.synced
    /\ hashchange > 0
    /\ hashchange' = hashchange - 1
    /\ LET id == routeNote(notes, locationHash)
       IN /\ selectedNoteId' = IF id # Null THEN selected(selectedNoteId, id[1])
                               ELSE selectedNoteId
          /\ lastOp' = Called("pull", id # Null, selectedNoteId # Null, getNoteIdFromHash)
    /\ UNCHANGED <<notes, query, now, persistVars, fragment, historyLen, viewVars>>

\* The collection is not the one Reconcile last saw.
ReconcilePending == syncState.synced /\ seenNotes # notes

\* Reconcile, on a change of the collection: a Route whose note the
\* collection does not hold is rewritten from Selection with replace.
Reconcile ==
    /\ ReconcilePending
    /\ seenNotes' = notes
    /\ LET id == getNoteIdFromHash
           gone == id # Null /\ ~HasId(notes, id[1])
       IN /\ IF gone THEN writeRoute(selectedNoteId, TRUE) ELSE UNCHANGED routeVars
          /\ lastOp' = Called("reconcile", gone, selectedNoteId # Null, id)
    /\ UNCHANGED <<notes, selectedNoteId, query, now, persistVars, syncState, editor>>

\* Every transition the last event triggered has run.
Quiescent == syncState.synced /\ ~PushPending /\ ~ReconcilePending /\ hashchange = 0

\* The next event is taken when the transitions of the last one have run.
Ready == ~PushPending /\ ~ReconcilePending

\* The collections RouteSync starts on: none, one note, two notes.
SyncStored ==
    { [kind |-> "missing", items |-> << >>],
      [kind |-> "array", items |-> <<NullItem, ItemA(0)>>],
      [kind |-> "array", items |-> <<ItemA(MaxTime + 2), ItemB>>] }

\* The fragments of the page's URL: none, the cleared route, the routes of
\* the notes a and b, of a note that never was, of a without the slash.
SyncFragments ==
    { Null,
      Some(<< >>),
      Some(<<"/", "n", "o", "t", "e", "/", "a">>),
      Some(<<"/", "n", "o", "t", "e", "/", "b">>),
      Some(<<"/", "n", "o", "t", "e", "/", "z">>),
      Some(<<"n", "o", "t", "e", "/", "a">>) }

InitSync ==
    /\ now = 1
    /\ localStorage \in SyncStored
    /\ Mount
    /\ lastOp = NoOp
    /\ fragment \in SyncFragments
    /\ historyLen = 1
    /\ hashchange = 0
    /\ NoView

NextSync ==
    \/ Startup
    \/ Push
    \/ Reconcile
    \/ Ready /\ Pull
    \/ \E id \in NoteIds(notes) : Ready /\ SelectNote(id)
    \/ \E id \in NoteIds(notes) : Ready /\ DeleteNote(id)
    \/ \E rnd \in RandomSuffixes : Ready /\ AddNote(0, rnd)
    \/ \E f \in SyncFragments : Ready /\ Navigate(f)

SpecSync == InitSync /\ [][NextSync]_vars

----------------------------------------------------------------------------
(* NoteEditor, given the selected note as note and updateNote as onUpdate *)

\* note?.title || "".
titleOf(note) == IF note = Null THEN << >> ELSE note[1].title

\* note?.content || "".
contentOf(note) == IF note = Null THEN << >> ELSE note[1].content

\* note?.id || null.
idOf(note) == IF note = Null \/ ~Truthy(note[1].id) THEN Null ELSE Some(note[1].id)

\* The dependencies of the sync effect: note?.id, note?.title, note?.content.
syncDeps(note) ==
    IF note = Null THEN <<Null, Null, Null>>
    ELSE <<Some(note[1].id), Some(note[1].title), Some(note[1].content)>>

\* What the callback of the timeout closes over: the note, title, content
\* and noteId of the render that armed it.
closure(note, title, content, noteId) ==
    [note |-> note, title |-> title, content |-> content, noteId |-> noteId]

\* The debounce effect: the pending timeout is cleared, and unless noteId is
\* null one is armed for this render.
debounce(note, title, content, noteId) ==
    IF noteId = Null THEN Null ELSE Some(closure(note, title, content, noteId))

\* The first render on note, and its effects.
firstRender(note) ==
    [ title |-> titleOf(note),
      content |-> contentOf(note),
      noteId |-> idOf(note),
      timer |-> debounce(note, titleOf(note), contentOf(note), idOf(note)) ]

\* The renders after the note given changed from old to new: the sync effect
\* resets title, content and noteId when its dependencies changed, and the
\* debounce effect runs again in each render whose dependencies changed,
\* the last one being that of the state the sync effect set.
rendered(e, old, new) ==
    LET synced == syncDeps(new) # syncDeps(old)
        title == IF synced THEN titleOf(new) ELSE e.title
        content == IF synced THEN contentOf(new) ELSE e.content
        noteId == IF synced THEN idOf(new) ELSE e.noteId
        rerun == new # old \/ title # e.title \/ content # e.content \/ noteId # e.noteId
    IN [ title |-> title,
         content |-> content,
         noteId |-> noteId,
         timer |-> IF rerun THEN debounce(new, title, content, noteId) ELSE e.timer ]

\* The patch of the fields that differ from the note closed over.
patchOf(c) ==
    Patch(c.title # titleOf(c.note), IF c.title # titleOf(c.note) THEN c.title ELSE << >>,
          c.content # contentOf(c.note), IF c.content # contentOf(c.note) THEN c.content ELSE << >>)

\* The texts typed into the title input and into the content textarea.
TypedTitles == {<<"T">>, <<"H", "i">>}

TypedContents == {<<"c">>, << >>}

\* onChange of the title input: setTitle(t), and the debounce effect of the
\* next render.
TypeTitle(t) ==
    /\ mounted
    /\ selectedNote # Null
    /\ t # editor.title
    /\ editor' = [editor EXCEPT !.title = t,
                                !.timer = debounce(selectedNote, t, editor.content, editor.noteId)]
    /\ lastOp' = Called("setTitle", FALSE, FALSE, editor.noteId)
    /\ UNCHANGED <<notes, selectedNoteId, query, now, persistVars, routeVars, syncState, seenNotes>>

\* onChange of the content textarea: setContent(c).
TypeContent(c) ==
    /\ mounted
    /\ selectedNote # Null
    /\ c # editor.content
    /\ editor' = [editor EXCEPT !.content = c,
                                !.timer = debounce(selectedNote, editor.title, c, editor.noteId)]
    /\ lastOp' = Called("setContent", FALSE, FALSE, editor.noteId)
    /\ UNCHANGED <<notes, selectedNoteId, query, now, persistVars, routeVars, syncState, seenNotes>>

\* The timeout of the editor fires: onUpdate(noteId, patch) when the patch
\* has a field, and the renders that follow the change of the collection.
EditorFire ==
    /\ mounted
    /\ editor.timer # Null
    /\ LET c == editor.timer[1]
           patch == patchOf(c)
       IN IF c.note # Null /\ (patch.hasTitle \/ patch.hasContent)
          THEN /\ updateNote(c.noteId[1], patch)
               /\ editor' = rendered([editor EXCEPT !.timer = Null], selectedNote,
                                     selectedNoteOf(notes', selectedNoteId'))
          ELSE /\ editor' = [editor EXCEPT !.timer = Null]
               /\ UNCHANGED <<storeVars, persistVars, routeVars>>
    /\ UNCHANGED <<syncState, seenNotes>>

\* selectNote(id), and the renders of the editor on the note selected.
EditorSelect(id) ==
    /\ selectNote(id)
    /\ editor' = rendered(editor, selectedNote, selectedNoteOf(notes', selectedNoteId'))
    /\ UNCHANGED <<syncState, seenNotes>>

\* addNote(), and the renders of the editor on the new note.
EditorAdd(rnd) ==
    /\ addNote(0, rnd)
    /\ editor' = rendered(editor, selectedNote, selectedNoteOf(notes', selectedNoteId'))
    /\ UNCHANGED <<syncState, seenNotes>>

\* deleteNote(id), and the renders of the editor on what is selected then.
EditorDelete(id) ==
    /\ deleteNote(id)
    /\ editor' = rendered(editor, selectedNote, selectedNoteOf(notes', selectedNoteId'))
    /\ UNCHANGED <<syncState, seenNotes>>

\* The collections the editor starts on: one note, two notes.
EditorStored ==
    { [kind |-> "array", items |-> <<NullItem, ItemA(0)>>],
      [kind |-> "array", items |-> <<ItemA(MaxTime + 2), ItemB>>] }

InitEditor ==
    /\ now = 1
    /\ localStorage \in EditorStored
    /\ Mount
    /\ lastOp = NoOp
    /\ fragment = Null
    /\ historyLen = 1
    /\ hashchange = 0
    /\ syncState = Uninitialized
    /\ seenNotes = << >>
    /\ editor = firstRender(selectedNote)

NextEditor ==
    \/ \E t \in TypedTitles : TypeTitle(t)
    \/ \E c \in TypedContents : TypeContent(c)
    \/ EditorFire
    \/ \E id \in NoteIds(notes) : EditorSelect(id)
    \/ \E rnd \in RandomSuffixes : EditorAdd(rnd)
    \/ \E id \in NoteIds(notes) : EditorDelete(id)

SpecEditor == InitEditor /\ [][NextEditor]_vars

----------------------------------------------------------------------------
(* Sidebar, given filteredNotes as notes and selectNote as onSelect *)

RECURSIVE insertDesc(_, _)
\* n put after the notes of s that are not older than it.
insertDesc(s, n) ==
    IF s = << >> THEN <<n>>
    ELSE IF Head(s).updatedAt >= n.updatedAt THEN <<Head(s)>> \o insertDesc(Tail(s), n)
    ELSE <<n>> \o s

RECURSIVE sortDesc(_)
\* [...notes].sort((a, b) => (b.updatedAt || 0) - (a.updatedAt || 0)): by
\* updatedAt descending, notes of the same time in the order they had.
sortDesc(ns) ==
    IF ns = << >> THEN << >>
    ELSE insertDesc(sortDesc(SubSeq(ns, 1, Len(ns) - 1)), ns[Len(ns)])

sortedNotes == sortDesc(filteredNotes)

\* sortedNotes.findIndex((n) => n.id === selectedId): -1 when there is none.
findIndex(ns, sel) ==
    IF sel # Null /\ HasId(ns, sel[1]) THEN FindIndex(ns, sel[1]) - 1 ELSE -1

max(a, b) == IF a >= b THEN a ELSE b

min(a, b) == IF a <= b THEN a ELSE b

\* The keys onListKeyDown handles.
Keys == {"ArrowDown", "ArrowUp", "Home", "End"}

\* The index (from 0) of the note onListKeyDown selects.
keyIndex(key, ns, sel) ==
    LET currentIndex == max(0, findIndex(ns, sel))
    IN CASE key = "ArrowDown" -> IF currentIndex = -1 THEN 0
                                  ELSE min(Len(ns) - 1, currentIndex + 1)
         [] key = "ArrowUp" -> IF currentIndex = -1 THEN 0 ELSE max(0, currentIndex - 1)
         [] key = "Home" -> 0
         [] key = "End" -> Len(ns) - 1

\* onListKeyDown(e) with e.key = key: onSelect(id) of the note at the index.
KeyDown(key) ==
    /\ Len(sortedNotes) > 0
    /\ SelectNote(sortedNotes[keyIndex(key, sortedNotes, selectedNoteId) + 1].id)

ItemC == Item(Str(<<"c">>), Str(<<"x">>), Str(<< >>), Num(2))

\* The collections the sidebar lists: two notes, three notes.
SidebarStored ==
    { [kind |-> "array", items |-> <<ItemA(1), ItemB>>],
      [kind |-> "array", items |-> <<ItemA(MaxTime + 2), ItemB, ItemC>>] }

InitSidebar ==
    /\ now = 1
    /\ localStorage \in SidebarStored
    /\ Mount
    /\ lastOp = NoOp
    /\ fragment = Null
    /\ historyLen = 1
    /\ hashchange = 0
    /\ NoView

NextSidebar ==
    \/ Tick
    \/ \E key \in Keys : KeyDown(key)
    \/ \E q \in Queries : SetQuery(q)
    \/ \E id \in NoteIds(notes), patch \in Patches : UpdateNote(id, patch)
    \/ \E id \in NoteIds(notes) : DeleteNote(id)

SpecSidebar == InitSidebar /\ [][NextSidebar]_vars

----------------------------------------------------------------------------
(* Properties of the note store *)

InCollection(n) == \E i \in 1..Len(notes) : notes[i] = n

\* The notes of ns without the one at position i.
RemoveAt(ns, i) == [j \in 1..(Len(ns) - 1) |-> IF j < i THEN ns[j] ELSE ns[j + 1]]

IdsOf(ns) == [i \in 1..Len(ns) |-> ns[i].id]

\* C1: selectedNote is null or a note of the collection whose id is the
\* Selection, and once the selected note has been deleted it reads as null.
C1_SelectedNoteResolves ==
    /\ selectedNote # Null =>
        /\ InCollection(selectedNote[1])
        /\ selectedNoteId = Some(selectedNote[1].id)
    /\ (lastOp.op = "delete" /\ lastOp.wasSelected) => selectedNote = Null

\* C1 witness: the selected note, present in the collection, has just been
\* deleted while other notes remain.
C1_Witness ==
    /\ lastOp.op = "delete"
    /\ lastOp.wasSelected
    /\ lastOp.hit
    /\ Len(notes) > 0
    /\ selectedNote = Null

\* C2: delete(id) of the selected, present note removes exactly that note, the
\* others kept in order, and sets Selection to null.
C2_DeleteSelectedRemovesExactlyOne ==
    [][\A id \in IdArgs :
        (DeleteNote(id) /\ selectedNoteId = Some(id) /\ HasId(notes, id)) =>
            /\ \E i \in 1..Len(notes) : notes[i].id = id /\ notes' = RemoveAt(notes, i)
            /\ selectedNoteId' = Null]_vars

\* C3 as claimed: delete(id) of an id that is not the Selection, or of an id
\* that is not in the collection, leaves Selection unchanged.
C3_DeleteOtherKeepsSelection ==
    [][\A id \in IdArgs :
        (DeleteNote(id) /\ (selectedNoteId # Some(id) \/ ~HasId(notes, id))) =>
            selectedNoteId' = selectedNoteId]_vars

\* C3 amended: delete(id) of an id that is not the Selection leaves Selection
\* unchanged, whether or not the id is in the collection; delete(id) of the
\* id that is the Selection sets Selection to null, also when no note of the
\* collection has that id.
C3_DeleteClearsOnlyOwnSelection ==
    [][\A id \in IdArgs :
        DeleteNote(id) =>
            /\ selectedNoteId # Some(id) => selectedNoteId' = selectedNoteId
            /\ selectedNoteId = Some(id) => selectedNoteId' = Null]_vars

\* C3 witness: a note that was not the Selection has just been deleted while
\* the Selection names an id that is not in the collection.
C3_Witness ==
    /\ lastOp.op = "delete"
    /\ lastOp.hit
    /\ ~lastOp.wasSelected
    /\ selectedNoteId # Null
    /\ ~HasId(notes, selectedNoteId[1])

\* No two notes of the collection share an id.
UniqueIds == \A i, j \in 1..Len(notes) : i # j => notes[i].id # notes[j].id

\* The ids of the notes a step keeps are the ids they had: the ids after the
\* step are those before it, with one prepended or some removed.
RECURSIVE IsSubsequence(_, _)
IsSubsequence(a, b) ==
    IF a = << >> THEN TRUE
    ELSE IF b = << >> THEN FALSE
    ELSE IF a[1] = b[1] THEN IsSubsequence(Tail(a), Tail(b))
    ELSE IsSubsequence(a, Tail(b))

IdsKept ==
    \/ IsSubsequence(IdsOf(notes'), IdsOf(notes))
    \/ Len(notes') = Len(notes) + 1 /\ Tail(IdsOf(notes')) = IdsOf(notes)

\* C4: in every state no two notes share an id, and no step changes the id of
\* a note it keeps.
C4_IdsUniqueAndImmutable == []UniqueIds /\ [][IdsKept]_vars

\* C5: update(id, patch) of an existing note keeps every id and lowers no
\* updatedAt.
C5_UpdateKeepsIdAndTime ==
    [][\A id \in IdArgs, patch \in Patches :
        (UpdateNote(id, patch) /\ HasId(notes, id)) =>
            /\ Len(notes') = Len(notes)
            /\ \A i \in 1..Len(notes) :
                /\ notes'[i].id = notes[i].id
                /\ notes'[i].updatedAt >= notes[i].updatedAt]_vars

\* The note n with the fields the patch names replaced and updatedAt set to t.
Patched(n, patch, t) ==
    [ id |-> n.id,
      title |-> IF patch.hasTitle THEN patch.title ELSE n.title,
      content |-> IF patch.hasContent THEN patch.content ELSE n.content,
      updatedAt |-> t ]

\* C6: update(id, patch) of an existing note replaces one note by itself with
\* the patch's fields and the current time, and leaves every other note and
\* the order alone.
C6_UpdateTouchesOneNote ==
    [][\A id \in IdArgs, patch \in Patches :
        (UpdateNote(id, patch) /\ HasId(notes, id)) =>
            \E i \in 1..Len(notes) :
                /\ notes[i].id = id
                /\ notes' = [notes EXCEPT ![i] = Patched(notes[i], patch, now)]]_vars

\* C7: update and delete of an id that is not in the collection throw nothing
\* and leave the collection as it is.
C7_AbsentIdLeavesCollection ==
    [][\A id \in IdArgs :
        (~HasId(notes, id) /\ (DeleteNote(id) \/ \E patch \in Patches : UpdateNote(id, patch))) =>
            /\ notes' = notes
            /\ ~lastOp'.threw]_vars

\* C7 witness: update was called with an id absent from a collection that
\* holds notes.
C7_Witness ==
    /\ lastOp.op = "update"
    /\ ~lastOp.hit
    /\ ~lastOp.threw
    /\ Len(notes) > 0

\* C8: select(id) sets Selection to id whether or not the id is in the
\* collection, and changes neither the collection nor the query.
C8_SelectSetsSelection ==
    [][\A id \in IdArgs :
        SelectNote(id) =>
            /\ selectedNoteId' = Some(id)
            /\ notes' = notes
            /\ query' = query]_vars

\* C8 witness: select was called with an id that is not in the collection and
\* that id is now the Selection.
C8_Witness ==
    /\ lastOp.op = "select"
    /\ ~lastOp.hit
    /\ selectedNoteId # Null
    /\ ~HasId(notes, selectedNoteId[1])

\* C9 as claimed: select(id) of an id that is not in the collection leaves
\* Selection as it was and throws nothing.
C9_SelectAbsentIsNoOp ==
    [][\A id \in IdArgs :
        (SelectNote(id) /\ ~HasId(notes, id)) =>
            /\ selectedNoteId' = selectedNoteId
            /\ ~lastOp'.threw]_vars

\* C9 amended: select(id) of an id that is not in the collection throws
\* nothing and leaves the collection alone, but Selection becomes id and the
\* derived selectedNote reads as null.
C9_SelectAbsentSetsStaleSelection ==
    [][\A id \in IdArgs :
        (SelectNote(id) /\ ~HasId(notes, id)) =>
            /\ ~lastOp'.threw
            /\ notes' = notes
            /\ selectedNoteId' = Some(id)
            /\ selectedNote' = Null]_vars

\* C9 witness: after select of an absent id over a collection that holds
\* notes, the Selection names no note and selectedNote is null.
C9_Witness ==
    /\ lastOp.op = "select"
    /\ ~lastOp.hit
    /\ ~lastOp.threw
    /\ Len(notes) > 0
    /\ selectedNoteId # Null
    /\ selectedNoteId[1] \notin NoteIds(notes)
    /\ selectedNote = Null

\* C10: add() throws nothing; the new note is first, the notes there before
\* follow it unchanged and in order, Selection is the new note's id and so
\* is the value returned.
C10_AddPrependsAndSelects ==
    [][\A d \in 0..1, rnd \in RandomSuffixes :
        AddNote(d, rnd) =>
            /\ ~lastOp'.threw
            /\ Len(notes') = Len(notes) + 1
            /\ notes'[1].id = generateId(now', rnd)
            /\ Tail(notes') = notes
            /\ selectedNoteId' = Some(notes'[1].id)
            /\ lastOp'.ret = Some(notes'[1].id)]_vars

\* C10 witness: add() has just run on a collection that held a note.
C10_Witness ==
    /\ lastOp.op = "add"
    /\ Len(notes) >= 2
    /\ lastOp.ret = Some(notes[1].id)
    /\ selectedNoteId = lastOp.ret

\* C11 (as stated): the note add() creates has the empty string as title and
\* the empty string as content.
C11_AddCreatesEmptyNote ==
    [][\A d \in 0..1, rnd \in RandomSuffixes :
        AddNote(d, rnd) =>
            /\ notes'[1].title = << >>
            /\ notes'[1].content = << >>]_vars

\* C11 (amended): the note add() creates has the title "Untitled" and the
\* empty string as content.
C11_AddCreatesUntitledNote ==
    [][\A d \in 0..1, rnd \in RandomSuffixes :
        AddNote(d, rnd) =>
            /\ notes'[1].title = Untitled
            /\ notes'[1].content = << >>]_vars

\* C11 witness: add() has just run and its note is first.
C11_Witness ==
    /\ lastOp.op = "add"
    /\ Len(notes) > 0
    /\ lastOp.ret = Some(notes[1].id)
    /\ notes[1].title = Untitled
    /\ notes[1].content = << >>

\* A query of white space only (or of nothing).
IsBlank(q) == \A i \in 1..Len(q) : q[i] \in WhiteSpace

\* C12 (as stated): filteredNotes is the whole collection for an empty or
\* blank query; for any other query q, white space around it included, it
\* holds exactly the notes whose lowercased title or content has the
\* lowercased q as a substring.
C12_FilterByLowercasedQuery ==
    /\ IsBlank(query) => filteredNotes = notes
    /\ ~IsBlank(query) =>
        filteredNotes = SelectSeq(notes, LAMBDA n : matches(n, toLowerCase(query)))

\* C12 (amended): filteredNotes is the whole collection for an empty or
\* blank query; for any other query q it holds, in the collection's order,
\* exactly the notes whose lowercased title or content has as a substring
\* the lowercased q without its leading and trailing white space.
C12_FilterByTrimmedQuery ==
    /\ IsBlank(query) => filteredNotes = notes
    /\ ~IsBlank(query) =>
        filteredNotes = SelectSeq(notes, LAMBDA n : matches(n, trim(toLowerCase(query))))

\* C12 witness: a query with white space before the word has been set; the
\* filter keeps a note that holds the word but not the padded query, and
\* drops another.
C12_Witness ==
    /\ lastOp.op = "setQuery"
    /\ ~IsBlank(query)
    /\ query[1] \in WhiteSpace
    /\ Len(filteredNotes) > 0
    /\ Len(filteredNotes) < Len(notes)
    /\ ~matches(filteredNotes[1], toLowerCase(query))

----------------------------------------------------------------------------
(* Properties of the debounced save *)

\* C13: a timeout that fires passes to saveNotes the collection as it is at
\* that moment, whatever mutations and fires came before; no timeout armed
\* for an earlier state of the collection is ever pending.
C13_SaveWritesCurrentNotes ==
    /\ [](\A snap \in timers : snap = notes)
    /\ [][\A snap \in timers, ok \in BOOLEAN :
            TimerFire(snap, ok) => snap = notes /\ saveLog'.arg = Some(notes')]_vars

\* C13 witness: the collection was changed, then the timeout armed last
\* fired with the collection as it is.
C13_Witness ==
    /\ lastOp.op \in {"add", "update", "delete"}
    /\ saveLog.count = 1
    /\ saveLog.arg = Some(notes)
    /\ Len(notes) > 0

\* C14: after a burst of changes, each before the timeout of the one before
\* fired, and without unmount, saveNotes is called once: while it has not
\* been called exactly one timeout is pending, armed with the collection as
\* it is after the last change; once it has been called, it was called once,
\* with that collection, and no timeout is left; and it is called in the end.
C14_BurstSavesOnce ==
    /\ []((mounted /\ saveLog.count = 0) => timers = {notes})
    /\ [](saveLog.count > 0 =>
            /\ saveLog.count = 1
            /\ saveLog.arg = Some(notes)
            /\ timers = {})
    /\ ((mounted /\ saveLog.count = 0) ~> (saveLog.count = 1 \/ ~mounted))

\* C14 witness: the burst is over, the one save was made and took effect.
C14_Witness ==
    /\ mounted
    /\ lastOp.op = "add"
    /\ saveLog.count = 1
    /\ saveLog.ok
    /\ timers = {}
    /\ localStorage = stringify(notes)
    /\ Len(notes) > 1

\* C15: once the component is unmounted no timeout is pending and saveNotes
\* is never called again, however many mutations came before.
C15_NoSaveAfterUnmount ==
    /\ [](~mounted => timers = {})
    /\ [][~mounted => (saveLog' = saveLog /\ localStorage' = localStorage /\ ~mounted')]_vars

\* C15 witness: the component was unmounted while the timeout armed by the
\* last of two mutations or more was pending.
C15_Witness ==
    /\ ~mounted
    /\ lastOp.op = "update"
    /\ Len(notes) > 1
    /\ notes[1].title = Untitled
    /\ saveLog.count = 0
    /\ localStorage # stringify(notes)

\* A save that fails raises nothing and leaves notes and Selection alone.
FailedSaveIsSilent ==
    [][\A snap \in timers :
        TimerFire(snap, FALSE) =>
            /\ ~saveLog'.raised
            /\ notes' = notes
            /\ selectedNoteId' = selectedNoteId
            /\ localStorage' = localStorage]_vars

\* C16 (as stated): a save that fails raises nothing and leaves notes and
\* Selection alone, and the collection is stored in the end by a later save
\* that succeeds.
C16_FailedSaveIsRetried ==
    /\ FailedSaveIsSilent
    /\ ((mounted /\ saveLog.count > 0 /\ ~saveLog.ok) ~> (localStorage = stringify(notes)))

\* C16 (amended): a save that fails raises nothing and leaves notes, Selection
\* and the stored value alone; no other save is scheduled for it (no timeout
\* is pending until the collection changes again); a save that succeeds
\* stores the whole collection as it is.
C16_FailedSaveIsDropped ==
    /\ FailedSaveIsSilent
    /\ []((saveLog.count > 0 /\ ~saveLog.ok) => timers = {})
    /\ [][\A snap \in timers :
            TimerFire(snap, TRUE) => localStorage' = stringify(notes)]_vars

\* C16 witness: the save failed; the collection is not what is stored and
\* no timeout is pending.
C16_Witness ==
    /\ mounted
    /\ saveLog.count = 1
    /\ ~saveLog.ok
    /\ ~saveLog.raised
    /\ timers = {}
    /\ localStorage # stringify(notes)

----------------------------------------------------------------------------
(* Properties of loadNotes and saveNotes *)

\* The set of {id, title, content, updatedAt} tuples of a collection.
Tuples(ns) == { ns[i] : i \in 1..Len(ns) }

\* The stored value was written by the last call of saveNotes, which
\* succeeded, from the notes as they are.
SavedAsIs == saveLog.count > 0 /\ saveLog.ok /\ saveLog.arg = Some(notes)

\* C17 (as stated): for a collection of string ids, titles and contents and
\* number updatedAt values, after a save that succeeded, loading gives the same set
\* of tuples as the collection saved.
C17_SaveLoadRoundTrip ==
    [][(Reload /\ SavedAsIs) => Tuples(notes') = Tuples(notes)]_vars

\* C17 (amended): after a save that succeeded of a collection whose
\* updatedAt values are all finite numbers, loading gives the same set of
\* tuples (in the same order) as the collection saved.
C17_FiniteSaveLoadRoundTrip ==
    [][(Reload /\ SavedAsIs /\ \A i \in 1..Len(notes) : notes[i].updatedAt # Infinity) =>
            (Tuples(notes') = Tuples(notes) /\ notes' = notes)]_vars

\* C17 witness: the notes in memory were loaded from what a save of them
\* had stored.
C17_Witness ==
    /\ lastOp.op = "load"
    /\ lastOp.hit
    /\ Len(notes) > 1
    /\ \A i \in 1..Len(notes) : notes[i].updatedAt # Infinity
    /\ localStorage = stringify(notes)

\* Every record has a string id, title and content and a number updatedAt.
WellTyped(recs) ==
    \A i \in 1..Len(recs) :
        /\ recs[i].id.t = "string"
        /\ recs[i].title.t = "string"
        /\ recs[i].content.t = "string"
        /\ recs[i].updatedAt.t = "number"

\* C18: loadNotes raises nothing; it returns the empty list when nothing is
\* stored, when the text is no JSON and when the JSON is no array; every
\* record it returns has a string id, title and content and a number
\* updatedAt.
C18_LoadNeverRaises ==
    [][Reload =>
        LET recs == loadTyped(localStorage, now)
        IN /\ ~lastOp'.threw
           /\ localStorage.kind # "array" => notes' = << >>
           /\ WellTyped(recs)
           /\ Len(notes') = Len(recs)
           /\ \A i \in 1..Len(recs) :
                notes'[i] = [ id |-> recs[i].id.s, title |-> recs[i].title.s,
                              content |-> recs[i].content.s,
                              updatedAt |-> recs[i].updatedAt.n ]]_vars

\* C18 witness: loadNotes has run on an array with a null and a record of
\* ill-typed fields, and gave the one record.
C18_Witness ==
    /\ lastOp.op = "load"
    /\ ~lastOp.threw
    /\ localStorage.kind = "array"
    /\ Len(localStorage.items) = 2
    /\ localStorage.items[1].falsy
    /\ localStorage.items[2].title.t = "number"
    /\ Len(notes) = 1
    /\ notes[1].title = << >>

\* C18 witness of the other case: loadNotes has run on a text that is no JSON.
C18_WitnessUnparseable ==
    /\ lastOp.op = "load"
    /\ localStorage.kind = "unparseable"
    /\ notes = << >>

----------------------------------------------------------------------------
(* Properties of routes.js *)

\* The text h is "#/note/" followed by a percent-encoded id: a non-empty text
\* without a slash that decodes to a non-empty id.
IsNoteRoute(h) ==
    /\ Len(h) > Len(NotePrefix)
    /\ SubSeq(h, 1, Len(NotePrefix)) = NotePrefix
    /\ LET rest == SubSeq(h, Len(NotePrefix) + 1, Len(h))
       IN /\ \A i \in 1..Len(rest) : rest[i] # "/"
          /\ decodeURIComponent(rest).ok
          /\ Truthy(decodeURIComponent(rest).s)

\* C19: the parser raises nothing; it returns an id for a fragment of the
\* form "#/note/<percent-encoded id>", the decoded id, and null for every
\* other fragment.
C19_ParserAcceptsExactFormOnly ==
    /\ ~parseRaised(locationHash)
    /\ IsNoteRoute(locationHash) =>
        getNoteIdFromHash =
            Some(decodeURIComponent(SubSeq(locationHash, Len(NotePrefix) + 1,
                                           Len(locationHash))).s)
    /\ ~IsNoteRoute(locationHash) => getNoteIdFromHash = Null

\* C19 for what the parser does: it raises nothing, reads the exact form as
\* its decoded id, and reads a fragment that is undecodable, has another
\* first part or has not two parts as null.
C19_ParserReadsLeniently ==
    /\ ~parseRaised(locationHash)
    /\ IsNoteRoute(locationHash) => getNoteIdFromHash # Null
    /\ getNoteIdFromHash # Null =>
        LET parts == SelectSeq(split(Tail(locationHash), "/"), Truthy)
        IN Len(parts) = 2 /\ parts[1] = <<"n", "o", "t", "e">>

\* C20 (as stated): after setNoteHash(id), pushing or replacing, with a non-empty id, the
\* fragment is "#/note/" and the percent-encoded id, and getNoteIdFromHash
\* gives id; after clearHash the fragment is the empty one and
\* getNoteIdFromHash gives null.
C20_RouteRoundTrip ==
    /\ [][\A id \in RouteIds, replace \in BOOLEAN :
            (SetNoteHash(id, replace) /\ Truthy(id)) =>
                /\ ~lastOp'.threw
                /\ locationHashOf(fragment') = NotePrefix \o encodeURIComponent(id).s
                /\ getNoteIdFromHashOf(locationHashOf(fragment')) = Some(id)]_vars
    /\ [][\A replace \in BOOLEAN :
            ClearHash(replace) =>
                /\ fragment' = Some(<< >>)
                /\ getNoteIdFromHashOf(locationHashOf(fragment')) = Null]_vars

\* No unpaired surrogate in the id.
WellFormed(id) == \A i \in 1..Len(id) : id[i] # LoneSurrogate

\* C20 (amended): after setNoteHash(id), pushing or replacing, with a
\* non-empty id that has no unpaired surrogate, nothing is raised, the
\* fragment is "#/note/" and the percent-encoded id, and getNoteIdFromHash
\* gives id; after clearHash the fragment is the empty one and
\* getNoteIdFromHash gives null.
C20_WellFormedRouteRoundTrip ==
    /\ [][\A id \in RouteIds, replace \in BOOLEAN :
            (SetNoteHash(id, replace) /\ Truthy(id) /\ WellFormed(id)) =>
                /\ ~lastOp'.threw
                /\ locationHashOf(fragment') = NotePrefix \o encodeURIComponent(id).s
                /\ getNoteIdFromHashOf(locationHashOf(fragment')) = Some(id)]_vars
    /\ [][\A replace \in BOOLEAN :
            ClearHash(replace) =>
                /\ fragment' = Some(<< >>)
                /\ getNoteIdFromHashOf(locationHashOf(fragment')) = Null]_vars

\* C20 witness: setNoteHash has written an id with a character that is
\* escaped, and the parser reads the id back.
C20_Witness ==
    /\ lastOp.op = "setNoteHash"
    /\ ~lastOp.threw
    /\ lastOp.ret # Null
    /\ \E i \in 1..Len(lastOp.ret[1]) : lastOp.ret[1][i] = "/"
    /\ locationHash = NotePrefix \o encodeURIComponent(lastOp.ret[1]).s
    /\ getNoteIdFromHash = lastOp.ret

----------------------------------------------------------------------------
(* Properties of RouteSync *)

\* C21: at Startup, when the Route encodes the id of a note of the
\* collection, that id becomes the Selection, the Route is written in its
\* exact form with replace (window.history gains no entry and no hashchange
\* is fired), and RouteSync ends in Synced(id).
C21_StartupSelectsRouteNote ==
    [][(Startup /\ routeNote(notes, locationHash) # Null)
        => LET id == routeNote(notes, locationHash)
           IN /\ selectedNoteId' = id
              /\ locationHashOf(fragment') = NotePrefix \o encodeURIComponent(id[1]).s
              /\ historyLen' = historyLen
              /\ hashchange' = hashchange
              /\ syncState' = Synced(id)]_vars

\* Startup has selected the note b of the Route in place of the first note,
\* and has rewritten a Route that lacked its slash.
C21_Witness ==
    /\ lastOp.op = "startup"
    /\ lastOp.hit
    /\ \/ selectedNoteId = Some(<<"b">>) /\ Len(notes) = 2 /\ notes[1].id = <<"a">>
       \/ lastOp.ret = Some(<<"a">>) /\ fragment = Some(<<"/", "n", "o", "t", "e", "/", "a">>)

\* C22: no transition of RouteSync sets the Selection to an id the collection
\* does not hold when the transition runs: Startup and Pull on a Route
\* that names such an id leave the Selection as it is, and whenever a
\* transition changes the Selection the new one is a note of the collection.
C22_NeverSelectsAbsentNote ==
    [][(Startup \/ Push \/ Pull \/ Reconcile)
        => /\ selectedNoteId' # selectedNoteId
                => selectedNoteId' # Null /\ selectedNoteId'[1] \in NoteIds(notes)
           /\ (getNoteIdFromHash # Null /\ getNoteIdFromHash[1] \notin NoteIds(notes))
                => selectedNoteId' = selectedNoteId]_vars

\* Pull has run on the Route of a note that never was, with a note selected.
C22_Witness ==
    /\ lastOp.op = "pull"
    /\ ~lastOp.hit
    /\ lastOp.ret = Some(<<"z">>)
    /\ selectedNoteId # Null

\* C23: Push never runs while RouteSync is Uninitialized, and until Startup
\* has run no transition writes the Route: the first write is the one of
\* Startup, made with replace, whatever the Selection did before.  (The
\* user may still navigate.)
C23_FirstWriteIsStartup ==
    [][/\ Push => syncState.synced
       /\ (~syncState.synced /\ (fragment' # fragment \/ historyLen' # historyLen))
            => \/ Startup /\ historyLen' = historyLen /\ syncState'.synced
               \/ \E f \in SyncFragments : Navigate(f)]_vars

\* The user selected b before Startup ran on a URL without a Route; Startup
\* wrote the Route of b.
C23_Witness ==
    /\ lastOp.op = "startup"
    /\ lastOp.ret = Null
    /\ Len(notes) = 2
    /\ notes[1].id = <<"a">>
    /\ selectedNoteId = Some(<<"b">>)
    /\ fragment = Some(<<"/", "n", "o", "t", "e", "/", "b">>)
    /\ historyLen = 1

\* The Push that follows the user's selectNote, from one note of the
\* collection to another.
UserPush ==
    /\ Push
    /\ lastOp.op = "select"
    /\ syncState.id # Null
    /\ syncState.id[1] \in NoteIds(notes)
    /\ selectedNoteId # Null
    /\ selectedNoteId[1] \in NoteIds(notes)

C25_PullSelectsRouteNote ==
    [][Pull
        => /\ (getNoteIdFromHash # Null /\ getNoteIdFromHash[1] \in NoteIds(notes))
                => selectedNoteId' = getNoteIdFromHash
           /\ locationHash = << >> => selectedNoteId' = selectedNoteId
           /\ UNCHANGED <<notes, fragment, historyLen>>]_vars

\* Pull has selected b, the note of the Route, while a was the Selection.
C25_Witness ==
    /\ lastOp.op = "pull"
    /\ lastOp.hit
    /\ lastOp.ret = Some(<<"b">>)
    /\ selectedNoteId = Some(<<"b">>)
    /\ syncState = Synced(Some(<<"a">>))

\* The selected note has just been deleted while the Route named it: the
\* Selection is null, RouteSync still holds the id, the Route encodes it and
\* the collection has no note with it.
DeletedRouteNote ==
    /\ lastOp.op = "delete"
    /\ lastOp.wasSelected
    /\ syncState.synced
    /\ selectedNoteId = Null
    /\ getNoteIdFromHash # Null
    /\ getNoteIdFromHash = syncState.id
    /\ getNoteIdFromHash[1] \notin NoteIds(notes)

\* C26: when the selected note is deleted while the Route names it, the
\* transition that runs next (Reconcile or Push) leaves the Route cleared
\* and window.history without a new entry, and the Push that Selection
\* becoming null triggers adds no entry either.
C26_DeleteClearsRouteWithReplace ==
    [][/\ (DeletedRouteNote /\ (Push \/ Reconcile))
            => fragment' = Some(<< >>) /\ historyLen' = historyLen
       /\ (Push /\ selectedNoteId = Null /\ lastOp.op \in {"delete", "reconcile"})
            => historyLen' = historyLen]_vars

----------------------------------------------------------------------------
(* Properties of the first save *)

\* Nothing has changed the collection since the store started.
Untouched == lastOp.op \in {"init", "load"}

\* C28: the timer is armed when the store starts, before any mutation: as
\* long as nothing changes the collection, either no save has been made and
\* one timeout is pending, closed over the collection that loadNotes
\* returned, or one save has been made and no timeout is pending; that
\* save is called with the loaded collection and, when setItem succeeds,
\* stores it, also over a value that was no JSON or no array.
C28_FirstSaveWritesLoaded ==
    /\ [](Untouched => \/ saveLog.count = 0 /\ timers = {notes}
                       \/ saveLog.count = 1 /\ timers = {} /\ saveLog.arg = Some(notes))
    /\ [][(Untouched /\ Fire)
            => /\ saveLog'.count = 1
               /\ saveLog'.arg = Some(notes)
               /\ saveLog'.ok => localStorage' = stringify(notes)
               /\ (saveLog'.ok /\ localStorage.kind \in {"unparseable", "object"})
                    => localStorage' = [kind |-> "array", items |-> << >>]]_vars

\* The one save of a store that started on nothing it could read has
\* stored the empty list.
C28_Witness ==
    /\ lastOp.op = "init"
    /\ saveLog.count = 1
    /\ saveLog.ok
    /\ notes = << >>
    /\ timers = {}
    /\ localStorage = [kind |-> "array", items |-> << >>]

----------------------------------------------------------------------------
(* Properties of NoteEditor *)

\* A timeout is pending whose callback has an edit to hand to onUpdate.
PendingEdit ==
    /\ editor.timer # Null
    /\ editor.timer[1].note # Null
    /\ patchOf(editor.timer[1]).hasTitle \/ patchOf(editor.timer[1]).hasContent

\* C29: an edit typed in the editor is neither lost nor misattributed when
\* the Selection changes before the timeout fires: while the edited note is
\* in the collection the edit stays pending for that note or has reached
\* it, and when the timeout fires onUpdate is called with the id of the note
\* the text was typed for.
C29_EditSurvivesSelectionChange ==
    [][PendingEdit
        => LET c == editor.timer[1]
           IN /\ (selectedNoteId' # selectedNoteId /\ c.noteId[1] \in NoteIds(notes'))
                    => \/ /\ editor'.timer # Null
                          /\ editor'.timer[1].noteId = c.noteId
                          /\ editor'.timer[1].title = c.title
                          /\ editor'.timer[1].content = c.content
                       \/ \E i \in 1..Len(notes') :
                            /\ notes'[i].id = c.noteId[1]
                            /\ notes'[i].title = c.title
                            /\ notes'[i].content = c.content
              /\ EditorFire
                    => /\ c.noteId = idOf(c.note)
                       /\ notes' = mapUpdate(notes, c.noteId[1], patchOf(c), now)]_vars

----------------------------------------------------------------------------
(* Properties of Sidebar *)

\* The position (from 1) of the Selection in the displayed list, 0 when it
\* is not displayed.
Position ==
    IF selectedNoteId # Null /\ selectedNoteId[1] \in NoteIds(sortedNotes)
    THEN CHOOSE i \in 1..Len(sortedNotes) :
            /\ sortedNotes[i].id = selectedNoteId[1]
            /\ \A j \in 1..(i - 1) : sortedNotes[j].id # selectedNoteId[1]
    ELSE 0

\* C30: the displayed list is sorted by updatedAt descending, and a key of
\* the listbox selects the id of a displayed note only: ArrowDown and
\* ArrowUp select the note one position after or before the selected one,
\* staying at the ends of the list, and ArrowDown selects the first
\* displayed note when the Selection is not displayed.
C30_KeysMoveSelectionByOne ==
    /\ [](\A i, j \in 1..Len(sortedNotes) :
            i < j => sortedNotes[i].updatedAt >= sortedNotes[j].updatedAt)
    /\ [][\A key \in Keys :
            KeyDown(key)
                => /\ selectedNoteId' # Null
                   /\ selectedNoteId'[1] \in NoteIds(sortedNotes)
                   /\ (key = "ArrowDown" /\ Position > 0)
                        => selectedNoteId'[1] = sortedNotes[min(Len(sortedNotes), Position + 1)].id
                   /\ (key = "ArrowUp" /\ Position > 0)
                        => selectedNoteId'[1] = sortedNotes[max(1, Position - 1)].id
                   /\ (key = "ArrowDown" /\ Position = 0)
                        => selectedNoteId'[1] = sortedNotes[1].id]_vars

====
